---- MODULE Spec2Model ----
(***************************************************************************)
(* Model of the DNS header codec (Header::new, Header::extract_flags,      *)
(* Header::to_bytes and the TryFrom<u8> conversions) and of the UDP        *)
(* receive loop of main() in src/main.rs.                                  *)
(*                                                                         *)
(* Spec       : the server loop of main().                                 *)
(* SpecCodec  : the codec applied to inputs drawn from bounded sets.       *)
(***************************************************************************)
EXTENDS Integers, Sequences, FiniteSets, TLC

VARIABLES
    build,      \* "debug" or "release": whether debug_assert! is compiled in
    pc,         \* main(): "running", "panicked" (unwound) or "exited" (break)
    panicAt,    \* the call that panicked, "" while none has
    buf,        \* main(): let mut buf = [0; 512]
    received,   \* datagrams recv_from has returned, oldest first
    sent,       \* datagrams send_to has sent, oldest first
    start,      \* codec run: "bytes", "header", or "" when no codec run
    b0,         \* codec run: the byte slice given to Header::new
    h0,         \* codec run: the Header given to to_bytes
    decoded,    \* codec run: outcome of Header::new
    encoded,    \* codec run: outcome of to_bytes
    step        \* codec run: number of codec calls made

vars == <<build, pc, panicAt, buf, received, sent, start, b0, h0, decoded, encoded, step>>

serverVars == <<pc, panicAt, buf, received, sent>>
codecVars == <<start, b0, h0, decoded, encoded, step>>

----------------------------------------------------------------------------
(* Program constants and bounds *)

HeaderLen == 12
BufSize == 512

\* number of datagrams a run of the server receives
MaxRecv == 2
\* codec inputs are HeaderLen - MaxDelta .. HeaderLen + MaxDelta bytes long
MaxDelta == 1

Builds == {"debug", "release"}

----------------------------------------------------------------------------
(* u8 / u16 arithmetic *)

RECURSIVE BitAnd(_, _)
BitAnd(x, y) ==
    IF x = 0 \/ y = 0 THEN 0
    ELSE (x % 2) * (y % 2) + 2 * BitAnd(x \div 2, y \div 2)

RECURSIVE BitOr(_, _)
BitOr(x, y) ==
    IF x = 0 THEN y
    ELSE IF y = 0 THEN x
    ELSE (IF x % 2 = 1 \/ y % 2 = 1 THEN 1 ELSE 0) + 2 * BitOr(x \div 2, y \div 2)

Shr(x, n) == x \div (2 ^ n)

\* << on u16: bits shifted past bit 15 are lost
Shl16(x, n) == (x * (2 ^ n)) % 65536

\* bool as u16
BoolAsU16(b) == IF b THEN 1 ELSE 0

\* 0-based slice indexing
At(bytes, i) == bytes[i + 1]

\* the two bytes taken in little-endian order
u16_from_le_bytes(hi, lo) == lo * 256 + hi

u16_from_be_bytes(hi, lo) == hi * 256 + lo

\* the value written in little-endian order
u16_to_le_bytes(v) == <<v % 256, Shr(v, 8)>>

u16_to_be_bytes(v) == <<Shr(v, 8), v % 256>>

----------------------------------------------------------------------------
(* Enumerations *)

OpCodes == {"Query", "IQuery", "Status"}
ResponseCodes == {"NoError", "FormError", "ServFail", "NxDomain"}
QueryOrReplies == {"Query", "Reply"}

Ok(v) == [ok |-> TRUE, v |-> v]
Err == [ok |-> FALSE, v |-> ""]

OpCode_try_from(value) ==
    CASE value = 0 -> Ok("Query")
      [] value = 1 -> Ok("IQuery")
      [] value = 2 -> Ok("Status")
      [] OTHER -> Err

ResponseCode_try_from(value) ==
    CASE value = 0 -> Ok("NoError")
      [] value = 1 -> Ok("FormError")
      [] value = 2 -> Ok("ServFail")
      [] value = 3 -> Ok("NxDomain")
      [] OTHER -> Err

QueryOrReply_try_from(value) ==
    CASE value = 0 -> Ok("Query")
      [] value = 1 -> Ok("Reply")
      [] OTHER -> Err

\* `as u16` on the enums: the declared discriminants
OpCode_as_u16(c) ==
    CASE c = "Query" -> 0
      [] c = "IQuery" -> 1
      [] c = "Status" -> 2

ResponseCode_as_u16(c) ==
    CASE c = "NoError" -> 0
      [] c = "FormError" -> 1
      [] c = "ServFail" -> 2
      [] c = "NxDomain" -> 3

QueryOrReply_as_u16(c) ==
    CASE c = "Query" -> 0
      [] c = "Reply" -> 1

----------------------------------------------------------------------------
(* Header *)

ZeroFlags ==
    [qr |-> "Query", op_code |-> "Query", authoritative_answer |-> FALSE,
     truncation |-> FALSE, recursion_desired |-> FALSE,
     recursion_available |-> FALSE, response_code |-> "NoError"]

ZeroHeader ==
    [id |-> 0, header_flags |-> ZeroFlags, question_count |-> 0,
     answer_record_count |-> 0, authority_record_count |-> 0,
     additional_record_count |-> 0]

\* outcome of a call that either returns or panics
Returned(v) == [kind |-> "Ok", at |-> "", v |-> v]
Panicked(where, dflt) == [kind |-> "Panic", at |-> where, v |-> dflt]
NotCalled(dflt) == [kind |-> "None", at |-> "", v |-> dflt]

\* the shifts and masks of extract_flags, one definition per field
qr_bits(flags1) == BitAnd(Shr(flags1, 7), 1)
\* op_code shifted by one bit too many
op_code_bits_shift4(flags1) == Shr(BitAnd(flags1, 120), 4)
op_code_bits(flags1) == Shr(BitAnd(flags1, 120), 3)
authoritative_answer_bit(flags1) == BitAnd(flags1, 4) # 0
\* truncation mask overlapping the authoritative_answer bit
truncation_bit_mask6(flags1) == BitAnd(flags1, 6) # 0
truncation_bit(flags1) == BitAnd(flags1, 2) # 0
recursion_desired_bit(flags1) == BitAnd(flags1, 1) # 0
recursion_available_bit(flags2) == BitAnd(flags2, 128) # 0
response_code_bits(flags2) == BitAnd(flags2, 15)

extract_flags(bytes) ==
    IF Len(bytes) < 4 THEN Panicked("index", ZeroFlags)
    ELSE
    LET flags1 == At(bytes, 2)
        flags2 == At(bytes, 3)
        op == OpCode_try_from(op_code_bits(flags1))
        rc == ResponseCode_try_from(response_code_bits(flags2))
        q == QueryOrReply_try_from(qr_bits(flags1))
    IN  IF ~op.ok THEN Panicked("OpCode::try_from", ZeroFlags)
        ELSE IF ~rc.ok THEN Panicked("ResponseCode::try_from", ZeroFlags)
        ELSE IF ~q.ok THEN Panicked("QueryOrReply::try_from", ZeroFlags)
        ELSE Returned([qr |-> q.v, op_code |-> op.v,
                       authoritative_answer |-> authoritative_answer_bit(flags1),
                       truncation |-> truncation_bit(flags1),
                       recursion_desired |-> recursion_desired_bit(flags1),
                       recursion_available |-> recursion_available_bit(flags2),
                       response_code |-> rc.v])

\* Header::new; bld says whether the debug_assert! is compiled in
new(bytes, bld) ==
    IF bld = "debug" /\ Len(bytes) # HeaderLen THEN Panicked("debug_assert", ZeroHeader)
    ELSE IF Len(bytes) < 2 THEN Panicked("index", ZeroHeader)
    ELSE
    LET id == u16_from_be_bytes(At(bytes, 0), At(bytes, 1))
        header_flags == extract_flags(bytes)
    IN  IF header_flags.kind # "Ok" THEN Panicked(header_flags.at, ZeroHeader)
        ELSE IF Len(bytes) < HeaderLen THEN Panicked("index", ZeroHeader)
        ELSE Returned(
            [id |-> id,
             header_flags |-> header_flags.v,
             question_count |-> u16_from_be_bytes(At(bytes, 4), At(bytes, 5)),
             answer_record_count |-> u16_from_be_bytes(At(bytes, 6), At(bytes, 7)),
             authority_record_count |-> u16_from_be_bytes(At(bytes, 8), At(bytes, 9)),
             additional_record_count |-> u16_from_be_bytes(At(bytes, 10), At(bytes, 11))])

\* reserved bits written as ones
reserved_bits_ones == Shl16(BitAnd(7, 7), 4)

\* ((0_u16) & 0x7) << 4
reserved_bits == Shl16(BitAnd(0, 7), 4)

to_bytes(self) ==
    LET f == self.header_flags
        flags0 == 0
        flags1 == BitOr(flags0, Shl16(QueryOrReply_as_u16(f.qr), 15))
        flags2 == BitOr(flags1, Shl16(OpCode_as_u16(f.op_code), 11))
        flags3 == BitOr(flags2, Shl16(BoolAsU16(f.authoritative_answer), 10))
        flags4 == BitOr(flags3, Shl16(BoolAsU16(f.truncation), 9))
        flags5 == BitOr(flags4, Shl16(BoolAsU16(f.recursion_desired), 8))
        flags6 == BitOr(flags5, Shl16(BoolAsU16(f.recursion_available), 7))
        flags7 == BitOr(flags6, reserved_bits)
        flags == BitOr(flags7, BitAnd(ResponseCode_as_u16(f.response_code), 15))
    IN  u16_to_be_bytes(self.id)
        \o u16_to_be_bytes(flags)
        \o u16_to_be_bytes(self.question_count)
        \o u16_to_be_bytes(self.answer_record_count)
        \o u16_to_be_bytes(self.authority_record_count)
        \o u16_to_be_bytes(self.additional_record_count)

----------------------------------------------------------------------------
(* main(): the receive loop *)

\* the whole buffer instead of its filled part
filled_buf_whole(bf, size) == bf

\* &mut buf[..size]
filled_buf(bf, size) == SubSeq(bf, 1, size)

\* slice.split_at(mid): panics when mid > len
split_at(slice, mid) ==
    IF mid > Len(slice) THEN Panicked("split_at", <<>>)
    ELSE Returned(<<SubSeq(slice, 1, mid), SubSeq(slice, mid + 1, Len(slice))>>)

\* qr left as decoded
SetReply_skipped(header) == header

\* header.header_flags.qr = QueryOrReply::Reply
SetReply(header) == [header EXCEPT !.header_flags.qr = "Reply"]

\* recv_from copies the datagram over the front of buf, the rest of buf stays
recv_into(bf, d) ==
    LET size == IF Len(d) < BufSize THEN Len(d) ELSE BufSize
    IN  [size |-> size,
         buf |-> SubSeq(d, 1, size) \o SubSeq(bf, size + 1, BufSize)]

\* the Ok arm of the match up to the argument of send_to
Handle(bf, size, bld) ==
    LET parts == split_at(filled_buf(bf, size), HeaderLen)
    IN  IF parts.kind # "Ok" THEN Panicked(parts.at, <<>>)
        ELSE LET header == new(parts.v[1], bld)
             IN  IF header.kind # "Ok" THEN Panicked(header.at, <<>>)
                 ELSE Returned(to_bytes(SetReply(header.v)))

\* header bytes the modelled clients put in their datagrams
ExampleRequest == <<4, 210, 1, 0, 0, 1, 0, 0, 0, 0, 0, 0>>
ExampleReply == <<4, 210, 129, 0, 0, 1, 0, 0, 0, 0, 0, 0>>

WithFlags(frame, f1, f2) == [frame EXCEPT ![3] = f1, ![4] = f2]

ClientByte2 == {1, 240, 150}
ClientByte3 == {0, 15, 243}

ClientHeaders ==
    {WithFlags(ExampleRequest, f1, f2) : f1 \in ClientByte2, f2 \in ClientByte3}
    \cup {<<18, 52, 150, 243, 86, 120, 154, 188, 222, 240, 15, 237>>}

Datagrams ==
    {<<>>}
    \cup {SubSeq(h, 1, HeaderLen - 1) : h \in ClientHeaders}
    \cup ClientHeaders
    \cup {h \o <<170>> : h \in ClientHeaders}
    \cup {h \o <<187, 204>> : h \in ClientHeaders}

NoCodecRun ==
    /\ start = ""
    /\ b0 = <<>>
    /\ h0 = ZeroHeader
    /\ decoded = NotCalled(ZeroHeader)
    /\ encoded = <<>>
    /\ step = 0

Init ==
    /\ build \in Builds
    /\ pc = "running"
    /\ panicAt = ""
    /\ buf = [i \in 1..BufSize |-> 0]
    /\ received = <<>>
    /\ sent = <<>>
    /\ NoCodecRun

\* recv_from returns Ok((size, source)): one pass through the loop body
RecvOk(d) ==
    /\ pc = "running"
    /\ Len(received) < MaxRecv
    /\ LET r == recv_into(buf, d)
           out == Handle(r.buf, r.size, build)
       IN  /\ buf' = r.buf
           /\ received' = Append(received, d)
           /\ IF out.kind # "Ok"
              THEN /\ pc' = "panicked"
                   /\ panicAt' = out.at
                   /\ sent' = sent
              ELSE \/ /\ sent' = Append(sent, out.v)
                      /\ UNCHANGED <<pc, panicAt>>
                   \/ /\ pc' = "panicked"
                      /\ panicAt' = "send_to"
                      /\ sent' = sent
    /\ UNCHANGED <<build, codecVars>>

\* recv_from returns Err(e): break
RecvErr ==
    /\ pc = "running"
    /\ pc' = "exited"
    /\ UNCHANGED <<build, panicAt, buf, received, sent, codecVars>>

Next ==
    \/ \E d \in Datagrams : RecvOk(d)
    \/ RecvErr

Spec == Init /\ [][Next]_vars

----------------------------------------------------------------------------
(* The codec on its own: Header::new and to_bytes applied to drawn inputs *)

Byte == 0..255

Byte2Samples == {0, 1, 24, 129, 150, 240, 255}
Byte3Samples == {0, 3, 4, 15, 112, 128, 243, 255}

FlagPairs ==
    {<<f1, f2>> : f1 \in Byte, f2 \in Byte3Samples}
    \cup {<<f1, f2>> : f1 \in Byte2Samples, f2 \in Byte}

Frames ==
    {ExampleRequest,
     <<18, 52, 0, 0, 86, 120, 154, 188, 222, 240, 15, 237>>,
     <<255, 255, 0, 0, 255, 255, 255, 255, 255, 255, 255, 255>>}

Padding(k) == [i \in 1..k |-> 170 + i]

SliceInputs ==
    {WithFlags(fr, p[1], p[2]) : fr \in Frames, p \in FlagPairs}
    \cup {SubSeq(h, 1, HeaderLen - k) : h \in ClientHeaders, k \in 1..MaxDelta}
    \cup {h \o Padding(k) : h \in ClientHeaders, k \in 1..MaxDelta}
    \cup {<<>>, <<4>>, <<4, 210, 1>>}

U16Samples == {0, 1, 256, 1234, 65535}

CountSamples == {<<0, 0, 0, 0>>, <<1, 0, 0, 0>>, <<65535, 256, 1, 4660>>}

AllFlags ==
    [qr : QueryOrReplies, op_code : OpCodes, authoritative_answer : BOOLEAN,
     truncation : BOOLEAN, recursion_desired : BOOLEAN,
     recursion_available : BOOLEAN, response_code : ResponseCodes]

HeaderInputs ==
    {[id |-> i, header_flags |-> f, question_count |-> c[1],
      answer_record_count |-> c[2], authority_record_count |-> c[3],
      additional_record_count |-> c[4]] :
        i \in U16Samples, f \in AllFlags, c \in CountSamples}

IdleServer ==
    /\ pc = "running"
    /\ panicAt = ""
    /\ buf = [i \in 1..BufSize |-> 0]
    /\ received = <<>>
    /\ sent = <<>>

InitCodec ==
    /\ build \in Builds
    /\ IdleServer
    /\ decoded = NotCalled(ZeroHeader)
    /\ encoded = <<>>
    /\ step = 0
    /\ \/ /\ start = "bytes"
          /\ b0 \in SliceInputs
          /\ h0 = ZeroHeader
       \/ /\ start = "header"
          /\ b0 = <<>>
          /\ h0 \in HeaderInputs

\* Header::new(bytes) on the drawn slice, or on what to_bytes produced
CallNew ==
    /\ \/ /\ start = "bytes"
          /\ step = 0
          /\ decoded' = new(b0, build)
       \/ /\ start = "header"
          /\ step = 1
          /\ decoded' = new(encoded, build)
    /\ step' = step + 1
    /\ UNCHANGED <<build, serverVars, start, b0, h0, encoded>>

\* header.to_bytes() on the drawn Header, or on what Header::new returned
CallToBytes ==
    /\ \/ /\ start = "header"
          /\ step = 0
          /\ encoded' = to_bytes(h0)
       \/ /\ start = "bytes"
          /\ step = 1
          /\ decoded.kind = "Ok"
          /\ encoded' = to_bytes(decoded.v)
    /\ step' = step + 1
    /\ UNCHANGED <<build, serverVars, start, b0, h0, decoded>>

NextCodec ==
    \/ CallNew
    \/ CallToBytes

SpecCodec == InitCodec /\ [][NextCodec]_vars

----------------------------------------------------------------------------
(* Properties *)

\* subfields of the flag bytes, by position
Bit(byte, i) == (byte \div (2 ^ i)) % 2
OpNibble(b) == (At(b, 2) \div 8) % 16
RcNibble(b) == At(b, 3) % 16
ReservedBits(b) == (At(b, 3) \div 16) % 8
ClearReserved(b) == [b EXCEPT ![4] = @ - 16 * ReservedBits(b)]
ToggleBit(b, idx, i) ==
    [b EXCEPT ![idx + 1] = IF Bit(@, i) = 1 THEN @ - 2 ^ i ELSE @ + 2 ^ i]

InRange(b) == OpNibble(b) \in {0, 1, 2} /\ RcNibble(b) \in {0, 1, 2, 3}

FromBytes12 == start = "bytes" /\ Len(b0) = HeaderLen

\* C1: a 12-byte buffer with op-code nibble in {0,1,2}, response-code nibble
\* in {0,1,2,3} and zero reserved bits decodes, and encoding the decoded
\* header gives back exactly the buffer.
C1_ByteRoundTrip ==
    (FromBytes12 /\ InRange(b0) /\ ReservedBits(b0) = 0) =>
        /\ step >= 1 => decoded.kind = "Ok"
        /\ step = 2 => encoded = b0

C1_Witness ==
    /\ FromBytes12 /\ InRange(b0) /\ ReservedBits(b0) = 0
    /\ step = 2
    /\ At(b0, 2) = 150 /\ At(b0, 3) = 131 /\ At(b0, 0) = 18
    /\ encoded = b0

\* C2: encoding any Header built from valid enumeration members returns 12
\* bytes, and decoding those bytes returns a Header equal to it in every field.
C2_StructRoundTrip ==
    start = "header" =>
        /\ step >= 1 => Len(encoded) = HeaderLen /\ \A i \in 1..HeaderLen : encoded[i] \in Byte
        /\ step = 2 => decoded = Returned(h0)

C2_Witness ==
    /\ start = "header" /\ step = 2
    /\ h0.header_flags.op_code = "Status" /\ h0.header_flags.response_code = "NxDomain"
    /\ h0.header_flags.qr = "Reply" /\ h0.header_flags.truncation
    /\ h0.id = 1234 /\ h0.answer_record_count = 256
    /\ decoded.kind = "Ok" /\ decoded.v = h0

\* C3: decoding a 12-byte buffer whose op-code nibble is outside {0,1,2}
\* fails with the error value InvalidOpCode, and one whose response-code
\* nibble is outside {0,1,2,3} fails with the error value InvalidResponseCode;
\* neither panics.
C3_ExplicitErrors ==
    (FromBytes12 /\ step >= 1) =>
        /\ OpNibble(b0) \notin {0, 1, 2} =>
               decoded.kind = "Err" /\ decoded.at = "InvalidOpCode"
        /\ (OpNibble(b0) \in {0, 1, 2} /\ RcNibble(b0) \notin {0, 1, 2, 3}) =>
               decoded.kind = "Err" /\ decoded.at = "InvalidResponseCode"

\* C4: decoding an input that is not exactly 12 bytes long fails with the
\* error value BadLength instead of panicking, and a 12-byte input never
\* fails because of its length.
C4_BadLength ==
    (start = "bytes" /\ step >= 1) =>
        /\ Len(b0) # HeaderLen => decoded.kind = "Err" /\ decoded.at = "BadLength"
        /\ Len(b0) = HeaderLen => decoded.at \notin {"BadLength", "debug_assert", "index", "split_at"}

\* a datagram the server cannot decode
Malformed(d) == Len(d) < HeaderLen \/ ~InRange(d)

\* C5: a malformed datagram is rejected on its own: once one has been
\* received the server has not been stopped by the decoding of a datagram.
C5_MalformedDoesNotStopServer ==
    (\E i \in DOMAIN received : Malformed(received[i])) =>
        ~(pc = "panicked" /\ panicAt # "send_to")

First12(d) == SubSeq(d, 1, HeaderLen)

\* C6: the reply to a datagram whose first 12 bytes decode is 12 bytes that
\* decode to the request's header with qr = Reply and every other field
\* unchanged; the example request gets the example reply.
C6_ServerReply ==
    /\ pc = "running" => Len(sent) = Len(received)
    /\ \A i \in DOMAIN sent :
        LET req == new(First12(received[i]), build)
            rep == new(sent[i], build)
        IN  /\ Len(sent[i]) = HeaderLen
            /\ req.kind = "Ok"
            /\ rep.kind = "Ok"
            /\ rep.v.header_flags.qr = "Reply"
            /\ rep.v = [req.v EXCEPT !.header_flags.qr = "Reply"]
            /\ First12(received[i]) = ExampleRequest => sent[i] = ExampleReply

C6_Witness ==
    /\ Len(sent) = 2
    /\ received[1] = ExampleRequest /\ sent[1] = ExampleReply
    /\ At(received[2], 2) = 150 /\ At(received[2], 3) = 243

FlagBits ==
    {<<2, 2, "authoritative_answer">>, <<2, 1, "truncation">>,
     <<2, 0, "recursion_desired">>, <<3, 7, "recursion_available">>}

FlipField(h, fld) ==
    [h EXCEPT !.header_flags = [@ EXCEPT ![fld] = ~@]]

\* C7: toggling one of the four boolean flag bits of a decodable buffer and
\* decoding again changes the corresponding boolean field and nothing else.
C7_FlagIsolation ==
    (FromBytes12 /\ step >= 1 /\ decoded.kind = "Ok") =>
        \A fb \in FlagBits :
            LET d2 == new(ToggleBit(b0, fb[1], fb[2]), build)
            IN  /\ d2.kind = "Ok"
                /\ d2.v = FlipField(decoded.v, fb[3])
                /\ d2.v # decoded.v

C7_Witness ==
    /\ FromBytes12 /\ step = 1 /\ decoded.kind = "Ok"
    /\ decoded.v.header_flags.authoritative_answer
    /\ ~decoded.v.header_flags.truncation
    /\ decoded.v.header_flags.recursion_available
    /\ decoded.v.header_flags.op_code = "Status"

\* C8: decoding ignores the three reserved bits (same outcome as the buffer
\* with them cleared), encoding always writes them as 0, and so encoding a
\* decoded buffer gives the buffer with byte 3 masked by 0b1000_1111.
C8_ReservedAsymmetry ==
    /\ (FromBytes12 /\ step >= 1) =>
           /\ decoded = new(ClearReserved(b0), build)
           /\ InRange(b0) => decoded.kind = "Ok"
    /\ (FromBytes12 /\ step = 2) => encoded = ClearReserved(b0)
    /\ (start # "" /\ Len(encoded) = HeaderLen) => ReservedBits(encoded) = 0

C8_Witness ==
    /\ FromBytes12 /\ step = 2
    /\ ReservedBits(b0) = 7
    /\ encoded # b0
    /\ encoded = ClearReserved(b0)

QrName(n) == IF n = 0 THEN "Query" ELSE "Reply"
OpName(n) == <<"Query", "IQuery", "Status">>[n + 1]
RcName(n) == <<"NoError", "FormError", "ServFail", "NxDomain">>[n + 1]
Pair(b, i) == 256 * At(b, i) + At(b, i + 1)

\* what the layout puts in header h for the 12 bytes b
LayoutAgrees(b, h) ==
    /\ h.id = Pair(b, 0)
    /\ h.header_flags.qr = QrName(Bit(At(b, 2), 7))
    /\ h.header_flags.op_code = OpName(OpNibble(b))
    /\ h.header_flags.authoritative_answer = (Bit(At(b, 2), 2) = 1)
    /\ h.header_flags.truncation = (Bit(At(b, 2), 1) = 1)
    /\ h.header_flags.recursion_desired = (Bit(At(b, 2), 0) = 1)
    /\ h.header_flags.recursion_available = (Bit(At(b, 3), 7) = 1)
    /\ h.header_flags.response_code = RcName(RcNibble(b))
    /\ h.question_count = Pair(b, 4)
    /\ h.answer_record_count = Pair(b, 6)
    /\ h.authority_record_count = Pair(b, 8)
    /\ h.additional_record_count = Pair(b, 10)

\* C9: decoding reads qr, op_code, the four flags, response_code, id and the
\* four counts from the documented bit and byte positions, and encoding
\* writes each field at the same positions.
C9_BitLayout ==
    /\ (FromBytes12 /\ step >= 1 /\ InRange(b0)) =>
           decoded.kind = "Ok" /\ LayoutAgrees(b0, decoded.v)
    /\ (start = "header" /\ step >= 1) =>
           /\ Len(encoded) = HeaderLen
           /\ InRange(encoded)
           /\ LayoutAgrees(encoded, h0)

C9_Witness ==
    /\ FromBytes12 /\ step = 1 /\ decoded.kind = "Ok"
    /\ b0 = <<18, 52, 150, 243, 86, 120, 154, 188, 222, 240, 15, 237>>
    /\ decoded.v.id = 4660
    /\ decoded.v.additional_record_count = 4077

\* the reply of a freshly started server to the 12 bytes alone
FreshReply(first12) ==
    LET r == recv_into([i \in 1..BufSize |-> 0], first12)
    IN  Handle(r.buf, r.size, build)

\* C10: every reply is exactly 12 bytes and is determined by the first 12
\* bytes of its datagram alone: it equals what a freshly started server
\* sends for those 12 bytes, whatever the datagram's tail and size and
\* whatever earlier datagrams left in the buffer.
C10_ReplyDependsOnFirst12Only ==
    /\ \A i \in DOMAIN sent :
        /\ Len(sent[i]) = HeaderLen
        /\ Len(received[i]) >= HeaderLen
        /\ Returned(sent[i]) = FreshReply(First12(received[i]))
    /\ \A i, j \in DOMAIN sent :
        First12(received[i]) = First12(received[j]) => sent[i] = sent[j]

C10_Witness ==
    /\ Len(sent) = 2
    /\ received[1] = ExampleRequest \o <<187, 204>>
    /\ received[2] = ExampleRequest
    /\ buf[HeaderLen + 1] = 187
    /\ sent[1] = ExampleReply
    /\ sent[2] = ExampleReply

====
